---- MODULE Spec2Model ----
(***************************************************************************)
(* Model of the blog-automation pipeline: blog_agent.main constructs a     *)
(* BlogEngine (blog_engine.py) and runs one command on it; the engine      *)
(* generates text, parses it, writes a markdown file and optionally        *)
(* publishes through WordPressClient (wordpress_client.py).                *)
(*                                                                         *)
(* Python strings are sequences of one-character strings.                  *)
(***************************************************************************)
EXTENDS Integers, Sequences, FiniteSets, TLC

VARIABLES
    args,               \* argparse namespace: list, generate, generate_all, custom, to_wordpress
    pc,                 \* position of the process in main / BlogEngine
    exit_status,        \* -1 while running, then the process exit status
    init_error,         \* which constructor step raised ("none" when none did)
    wp_init,            \* outcome of _init_wordpress_client
    wordpress_enabled,  \* self.wordpress_enabled
    has_wp_client,      \* hasattr(self, 'wp_client')
    sheet_data,         \* self.sheet_data
    mode,               \* which BlogEngine method is running
    idx,                \* position of the for loop of generate_all_blog_posts
    topic_data,         \* topic_data / custom_data of the running method
    ai_content,         \* ai_content
    meta_description,   \* meta_description
    blog_content,       \* blog_content
    html_content,       \* html_content of _publish_to_wordpress, with the converter it came from
    generated_count,    \* generated_count
    published_count,    \* published_count
    now,                \* datetime.now(), in seconds
    files,              \* the output directory: file name -> file content
    wp_calls,           \* the NewPost calls received by the remote site, in order
    reports,            \* the messages printed so far
    attempted,          \* row numbers whose processing was started, in order
    saved               \* row numbers whose _save_blog_post returned, in order

vars == <<args, pc, exit_status, init_error, wp_init, wordpress_enabled, has_wp_client,
          sheet_data, mode, idx, topic_data, ai_content, meta_description, blog_content,
          html_content, generated_count, published_count, now, files, wp_calls, reports, attempted, saved>>

-----------------------------------------------------------------------------
(* Bounds of the model *)

\* rows of the spreadsheet range A2:C
MaxRows == 2
\* seconds the clock can advance during a run
MaxClock == 1
\* extra characters by which generated lines go past the truncation limit
MaxOver == 4

-----------------------------------------------------------------------------
(* Python string primitives *)

Whitespace == {" ", "\t", "\n", "\r"}

Tag == <<"M","E","T","A","_","D","E","S","C","R","I","P","T","I","O","N",":">>

\* s[:n]
Take(s, n) == SubSeq(s, 1, IF n < Len(s) THEN n ELSE Len(s))

\* s[n:]
Drop(s, n) == SubSeq(s, n + 1, Len(s))

\* s.startswith(p)
StartsWith(s, p) == Len(s) >= Len(p) /\ SubSeq(s, 1, Len(p)) = p

\* the least element of a non-empty set of integers
Min(S) == CHOOSE i \in S : \A j \in S : i <= j

\* the greatest element of a non-empty set of integers
Max(S) == CHOOSE i \in S : \A j \in S : i >= j

\* the positions of s holding a character that is not whitespace
Inked(s) == {i \in DOMAIN s : s[i] \notin Whitespace}

LStrip(s) == IF Inked(s) = {} THEN <<>> ELSE SubSeq(s, Min(Inked(s)), Len(s))

RStrip(s) == IF Inked(s) = {} THEN <<>> ELSE SubSeq(s, 1, Max(Inked(s)))

\* s.strip()
Strip(s) == RStrip(LStrip(s))

\* s.find(p) + 1: the first position where p occurs in s, 0 when there is none
Find(s, p) ==
    LET at == {i \in 1..(Len(s) - Len(p) + 1) : SubSeq(s, i, i + Len(p) - 1) = p} IN
    IF at = {} THEN 0 ELSE Min(at)

\* s.split(c, maxsplit); maxsplit = -1 is no limit
RECURSIVE Split(_, _, _)
Split(s, c, maxsplit) ==
    LET i == Find(s, <<c>>) IN
    IF maxsplit = 0 \/ i = 0 THEN <<s>>
    ELSE <<SubSeq(s, 1, i - 1)>> \o Split(Drop(s, i), c, maxsplit - 1)

\* c.join(parts)
RECURSIVE Join(_, _)
Join(parts, c) ==
    IF parts = <<>> THEN <<>>
    ELSE IF Len(parts) = 1 THEN parts[1]
    ELSE parts[1] \o <<c>> \o Join(Tail(parts), c)

\* s.replace(p, '') : every non-overlapping occurrence of p is removed, left to right
RECURSIVE Remove(_, _)
Remove(s, p) ==
    LET i == Find(s, p) IN
    IF i = 0 THEN s
    ELSE SubSeq(s, 1, i - 1) \o Remove(Drop(s, i + Len(p) - 1), p)

-----------------------------------------------------------------------------
(* BlogEngine._extract_meta_description *)

\* first_paragraph[:157] is kept when the paragraph is longer than this
MetaLimit == 157

Ellipsis == <<".", ".", ".">>

\* the for loop of the fallback: the first line with line.strip() non-empty that
\* does not start with '#', stripped; "" when there is none
RECURSIVE FirstParagraph(_)
FirstParagraph(lines) ==
    IF lines = <<>> THEN <<>>
    ELSE IF Strip(Head(lines)) # <<>> /\ ~StartsWith(Head(lines), <<"#">>)
         THEN Strip(Head(lines))
         ELSE FirstParagraph(Tail(lines))

\* FallbackMeta with the bug of a missing truncation
FallbackMeta_NoLimit(content) == FirstParagraph(Split(content, "\n", -1))

\* line 333, after the loop of lines 325-330
FallbackMeta(content) ==
    LET first_paragraph == FirstParagraph(Split(content, "\n", -1)) IN
    IF Len(first_paragraph) > MetaLimit
    THEN Take(first_paragraph, MetaLimit) \o Ellipsis
    ELSE first_paragraph

\* returns <<meta_description, clean_content>>
_extract_meta_description(content) ==
    LET lines == Split(content, "\n", 2) IN
    IF StartsWith(content, Tag) /\ Len(lines) >= 2
    THEN <<Strip(Remove(lines[1], Tag)), Strip(Join(Tail(lines), "\n"))>>
    ELSE <<FallbackMeta(content), content>>

-----------------------------------------------------------------------------
(* BlogEngine._save_blog_post: the file name *)

UpperCase == <<"A","B","C","D","E","F","G","H","I","J","K","L","M",
               "N","O","P","Q","R","S","T","U","V","W","X","Y","Z">>
LowerCase == <<"a","b","c","d","e","f","g","h","i","j","k","l","m",
               "n","o","p","q","r","s","t","u","v","w","x","y","z">>
Digits == {"0","1","2","3","4","5","6","7","8","9"}

Range(f) == {f[i] : i \in DOMAIN f}

\* c.lower()
LowerChar(c) ==
    IF c \in Range(UpperCase)
    THEN LowerCase[CHOOSE i \in DOMAIN UpperCase : UpperCase[i] = c]
    ELSE c

\* s.lower()
Lower(s) == [i \in DOMAIN s |-> LowerChar(s[i])]

\* the characters the class [^a-zA-Z0-9\\s-] of the raw string does not match:
\* letters, digits, the backslash (written \\), s and the hyphen
KeptChars == Range(UpperCase) \cup Range(LowerCase) \cup Digits \cup {"\\", "-"}

\* re.sub(r'[^a-zA-Z0-9\\s-]', '', title)
RECURSIVE RemoveSpecial(_)
RemoveSpecial(s) ==
    IF s = <<>> THEN <<>>
    ELSE IF Head(s) \in KeptChars THEN <<Head(s)>> \o RemoveSpecial(Tail(s))
    ELSE RemoveSpecial(Tail(s))

\* the length of the run of c at the head of s
RECURSIVE RunLength(_, _)
RunLength(s, c) == IF s # <<>> /\ Head(s) = c THEN 1 + RunLength(Tail(s), c) ELSE 0

\* re.sub(r'\\s+', '-', s): in the raw string the pattern is a backslash followed
\* by one or more letters s
RECURSIVE SubBackslashS(_)
SubBackslashS(s) ==
    IF s = <<>> THEN <<>>
    ELSE IF Head(s) = "\\" /\ RunLength(Tail(s), "s") >= 1
         THEN <<"-">> \o SubBackslashS(Drop(Tail(s), RunLength(Tail(s), "s")))
         ELSE <<Head(s)>> \o SubBackslashS(Tail(s))

\* filename.lower()[:50]
SlugLimit == 50

\* lines 341-344: the slug part of the file name
Slug(title) == Take(Lower(SubBackslashS(Strip(RemoveSpecial(title)))), SlugLimit)


-----------------------------------------------------------------------------
(* BlogEngine._markdown_to_html and _simple_markdown_to_html *)

\* s.split(sep, maxsplit) for a separator of several characters
RECURSIVE SplitOn(_, _, _)
SplitOn(s, sep, maxsplit) ==
    LET i == Find(s, sep) IN
    IF maxsplit = 0 \/ i = 0 THEN <<s>>
    ELSE <<SubSeq(s, 1, i - 1)>> \o SplitOn(Drop(s, i + Len(sep) - 1), sep, maxsplit - 1)

Dashes == <<"-", "-", "-">>

\* lines 405-408 and 431-434: the YAML front matter is cut off
StripFrontMatter(markdown_content) ==
    LET parts == SplitOn(markdown_content, Dashes, 2) IN
    IF StartsWith(markdown_content, Dashes) /\ Len(parts) >= 3
    THEN Strip(parts[3])
    ELSE markdown_content

OpenTag(name) == <<"<">> \o name \o <<">">>
CloseTag(name) == <<"<", "/">> \o name \o <<">">>

\* one line under re.sub(r'^<marks> (.+)$', r'<name>\1</name>', ...)
HeaderLine(line, marks, name) ==
    IF StartsWith(line, marks \o <<" ">>) /\ Len(line) > Len(marks) + 1
    THEN OpenTag(name) \o Drop(line, Len(marks) + 1) \o CloseTag(name)
    ELSE line

\* the substitution with re.MULTILINE: every line on its own
SubHeaders(text, marks, name) ==
    LET lines == Split(text, "\n", -1) IN
    Join([i \in DOMAIN lines |-> HeaderLine(lines[i], marks, name)], "\n")

\* the positions after i where mark closes a match of mark(.+?)mark opened at i
Closers(s, mark, i) ==
    {j \in (i + Len(mark) + 1)..(Len(s) - Len(mark) + 1) :
        /\ SubSeq(s, j, j + Len(mark) - 1) = mark
        /\ \A k \in (i + Len(mark))..(j - 1) : s[k] # "\n"}

\* re.sub of mark(.+?)mark by <name>\1</name>: leftmost match, shortest content
RECURSIVE SubPairs(_, _, _)
SubPairs(s, mark, name) ==
    LET opens == {i \in 1..(Len(s) - Len(mark) + 1) :
                     /\ SubSeq(s, i, i + Len(mark) - 1) = mark
                     /\ Closers(s, mark, i) # {}}
    IN IF opens = {} THEN s
       ELSE LET i == Min(opens)
                j == Min(Closers(s, mark, i))
            IN SubSeq(s, 1, i - 1)
               \o OpenTag(name) \o SubSeq(s, i + Len(mark), j - 1) \o CloseTag(name)
               \o SubPairs(Drop(s, j + Len(mark) - 1), mark, name)

\* lines 448-458: the paragraphs appended to html_paragraphs. A paragraph that does
\* not start with '<' is wrapped into para and not appended.
RECURSIVE HtmlParagraphs(_)
HtmlParagraphs(paragraphs) ==
    IF paragraphs = <<>> THEN <<>>
    ELSE LET para == Strip(Head(paragraphs)) IN
         IF para # <<>> /\ StartsWith(para, <<"<">>)
         THEN <<para>> \o HtmlParagraphs(Tail(paragraphs))
         ELSE HtmlParagraphs(Tail(paragraphs))

_simple_markdown_to_html(markdown_content) ==
    LET h3 == SubHeaders(StripFrontMatter(markdown_content), <<"#", "#", "#">>, <<"h", "3">>)
        h2 == SubHeaders(h3, <<"#", "#">>, <<"h", "2">>)
        h1 == SubHeaders(h2, <<"#">>, <<"h", "1">>)
        bold == SubPairs(h1, <<"*", "*">>, <<"s", "t", "r", "o", "n", "g">>)
        italic == SubPairs(bold, <<"*">>, <<"e", "m">>)
    IN Join(HtmlParagraphs(SplitOn(italic, <<"\n", "\n">>, -1)), "\n")

\* markdown.markdown(...).strip() is the work of the library and is not computed:
\* one document stands for whatever it returns
LibraryHtml == <<"<", "p", ">", "p", "o", "s", "t", "<", "/", "p", ">">>

\* no conversion has run
NoHtml == [via |-> "none", text |-> <<>>]

\* lines 403-426; raises tells whether markdown.markdown raised. The except clause
\* passes on markdown_content as line 408 left it.
_markdown_to_html(markdown_content, raises) ==
    IF raises
    THEN [via |-> "simple",
          text |-> _simple_markdown_to_html(StripFrontMatter(markdown_content))]
    ELSE [via |-> "markdown", text |-> LibraryHtml]

-----------------------------------------------------------------------------
(* The environment: command lines, spreadsheets, generated texts *)

HelloTitle == <<"H","e","l","l","o",","," ","W","o","r","l","d","!"," ","2","0","2","5">>
TipsTitle == <<"A","I"," ","t","i","p","s">>
Titles == {HelloTitle, TipsTitle}

\* a generated text that follows the prompt's format, and one that does not
TaggedText == Tag \o <<" ","S","E","O","\n","\n","#"," ","T","\n","\n","b","o","d","y">>
PlainText == <<"#"," ","T","\n","\n","i","n","t","r","o","\n","m","o","r","e">>
GeneratedTexts == {TaggedText, PlainText}

\* the slug of every title of the model, computed once
Slugs == [title \in Titles |-> Slug(title)]

\* lines 347-348: f"{timestamp}_{filename}.md"
FileName(timestamp, title) == <<timestamp, Slugs[title]>>

\* line 309: completion.choices[0].message.content.strip()
Completions == {Strip(text) : text \in GeneratedTexts}

\* the parse of every completion of the model, computed once
Parsed == [content \in Completions |-> _extract_meta_description(content)]

\* the conversion of every body of the model, computed once
Converted ==
    [content \in {Parsed[c][2] : c \in Completions} |->
        [raises \in BOOLEAN |-> _markdown_to_html(content, raises)]]

\* an absent optional argument is <<>>, a given one is <<value>>
NoArgs == [list |-> FALSE, generate |-> <<>>, generate_all |-> FALSE, custom |-> <<>>]

Commands ==
    {NoArgs}
    \cup {[NoArgs EXCEPT !.list = TRUE]}
    \cup {[NoArgs EXCEPT !.generate = <<r>>] : r \in 0..(MaxRows + 1)}
    \cup {[NoArgs EXCEPT !.generate_all = TRUE]}
    \cup {[NoArgs EXCEPT !.custom = <<t>>] : t \in Titles}

\* worksheet.get("A2:C"): a row has its three cells, or fewer
SheetRows == {[cells |-> 3, title |-> t] : t \in Titles} \cup {[cells |-> 2, title |-> <<>>]}
Worksheets == UNION {[1..n -> SheetRows] : n \in 0..MaxRows}

\* 'row_number': 'custom' of generate_custom_blog_post
CustomRow == 0
\* topic_data = None
NoTopic == [row_number |-> -1, title |-> <<>>]
\* the Optional[int] None of _publish_to_wordpress
NoPostId == 0

-----------------------------------------------------------------------------
(* Initial state: main has parsed the command line *)

Init ==
    /\ \E c \in Commands, w \in BOOLEAN :
          args = [list |-> c.list, generate |-> c.generate, generate_all |-> c.generate_all,
                  custom |-> c.custom, to_wordpress |-> w]
    /\ pc = "construct"
    /\ exit_status = -1
    /\ init_error = "none"
    /\ wp_init = "not_requested"
    /\ wordpress_enabled = FALSE
    /\ has_wp_client = FALSE
    /\ sheet_data = <<>>
    /\ mode = "none"
    /\ idx = 0
    /\ topic_data = NoTopic
    /\ ai_content = <<>>
    /\ meta_description = <<>>
    /\ blog_content = <<>>
    /\ html_content = NoHtml
    /\ generated_count = 0
    /\ published_count = 0
    /\ now = 0
    /\ files = <<>>
    /\ wp_calls = <<>>
    /\ reports = {}
    /\ attempted = <<>>
    /\ saved = <<>>

engine_vars == <<wordpress_enabled, has_wp_client, sheet_data>>
run_vars == <<mode, idx, topic_data, ai_content, meta_description, blog_content, html_content,
              generated_count, published_count, attempted, saved>>
world_vars == <<now, files, wp_calls>>

-----------------------------------------------------------------------------
(* blog_agent.main: construction of the engine *)

\* InitFailed with the bug of a constructor that swallows the exception
InitFailed_Continues(step) ==
    /\ init_error' = step
    /\ reports' = reports \cup {<<"init_failed", 0>>}
    /\ pc' = "dispatch"
    /\ UNCHANGED exit_status

\* main, lines 74-76: the constructor raised; print the error and sys.exit(1)
InitFailed(step) ==
    /\ init_error' = step
    /\ reports' = reports \cup {<<"init_failed", 0>>}
    /\ exit_status' = 1
    /\ pc' = "exited"

\* BlogEngine.__init__, lines 27-34: the fields and the output directory
Construct ==
    /\ pc = "construct"
    /\ wordpress_enabled' = args.to_wordpress
    /\ UNCHANGED <<args, wp_init, has_wp_client, sheet_data, run_vars, world_vars>>
    /\ \/ /\ pc' = "init_sheets"
          /\ UNCHANGED <<exit_status, init_error, reports>>
       \/ InitFailed("mkdir")

_init_sheets_client ==
    /\ pc = "init_sheets"
    /\ UNCHANGED <<args, wp_init, engine_vars, run_vars, world_vars>>
    /\ \/ /\ pc' = "init_ai"
          /\ UNCHANGED <<exit_status, init_error, reports>>
       \/ InitFailed("sheets")

\* followed by the test of line 43
_init_ai_client ==
    /\ pc = "init_ai"
    /\ UNCHANGED <<args, wp_init, engine_vars, run_vars, world_vars>>
    /\ \/ /\ pc' = IF wordpress_enabled THEN "init_wp" ELSE "load"
          /\ UNCHANGED <<exit_status, init_error, reports>>
       \/ InitFailed("ai")

\* the except clause of lines 95-98
WordpressInitRaised ==
    /\ wp_init' = "construct_failed"
    /\ wordpress_enabled' = FALSE
    /\ has_wp_client' = FALSE
    /\ reports' = reports \cup {<<"wp_init_failed", 0>>}
    /\ pc' = "load"
    /\ UNCHANGED <<exit_status, init_error>>

\* ProbeFailed with the bug of a warning that leaves publishing switched on
ProbeFailed_KeepsPublishing ==
    /\ wp_init' = "probe_false"
    /\ has_wp_client' = TRUE
    /\ reports' = reports \cup {<<"wp_connection_failed", 0>>}
    /\ pc' = "load"
    /\ UNCHANGED <<wordpress_enabled, exit_status, init_error>>

\* lines 90-93: test_connection() returned False
ProbeFailed ==
    /\ wp_init' = "probe_false"
    /\ wordpress_enabled' = FALSE
    /\ has_wp_client' = TRUE
    /\ reports' = reports \cup {<<"wp_connection_failed", 0>>}
    /\ pc' = "load"
    /\ UNCHANGED <<exit_status, init_error>>

_init_wordpress_client ==
    /\ pc = "init_wp"
    /\ UNCHANGED <<args, sheet_data, run_vars, world_vars>>
    /\ \/ WordpressInitRaised
       \/ ProbeFailed
       \/ /\ wp_init' = "connected"
          /\ has_wp_client' = TRUE
          /\ pc' = "load"
          /\ UNCHANGED <<wordpress_enabled, reports, exit_status, init_error>>

\* lines 116-124: enumerate(all_data, 1), keeping the rows with three cells
LoadedRows(all_data) ==
    LET keep == {i \in DOMAIN all_data : all_data[i].cells >= 3}
        F[i \in 0..Len(all_data)] ==
            IF i = 0 THEN <<>>
            ELSE IF i \in keep
                 THEN Append(F[i - 1], [row_number |-> i, title |-> all_data[i].title])
                 ELSE F[i - 1]
    IN F[Len(all_data)]

_load_sheet_data ==
    /\ pc = "load"
    /\ UNCHANGED <<args, wp_init, wordpress_enabled, has_wp_client, run_vars, world_vars>>
    /\ \/ /\ \E all_data \in Worksheets : sheet_data' = LoadedRows(all_data)
          /\ pc' = "dispatch"
          /\ UNCHANGED <<exit_status, init_error, reports>>
       \/ /\ InitFailed("load")
          /\ UNCHANGED sheet_data

-----------------------------------------------------------------------------
(* blog_agent.main: the command, lines 79-94 *)

\* the called method returned and main runs off its end
Returned ==
    /\ pc' = "exited"
    /\ exit_status' = 0

\* an exception leaves main: the interpreter prints the traceback and exits with 1
Uncaught ==
    /\ reports' = reports \cup {<<"traceback", topic_data.row_number>>}
    /\ pc' = "exited"
    /\ exit_status' = 1

\* CaughtInBatch with the bug of a loop body without its try
CaughtInBatch_Propagates ==
    /\ reports' = reports \cup {<<"traceback", topic_data.row_number>>}
    /\ pc' = "exited"
    /\ exit_status' = 1

\* generate_all_blog_posts, lines 223-224: the except clause of the loop body
CaughtInBatch ==
    /\ reports' = reports \cup {<<"failed_to_generate", topic_data.row_number>>}
    /\ pc' = "loop"
    /\ UNCHANGED exit_status

\* a stage of the pipeline raised Exception: only generate_all_blog_posts has a handler
Raised == IF mode = "batch" THEN CaughtInBatch ELSE Uncaught

\* the end of one topic: the next turn of the loop, or the return to main
TopicDone == IF mode = "batch" THEN pc' = "loop" /\ UNCHANGED exit_status ELSE Returned

list_topics ==
    /\ pc = "dispatch"
    /\ args.list
    /\ mode' = "list"
    /\ reports' = reports \cup {<<"topics_listed", Len(sheet_data)>>}
    /\ Returned
    /\ UNCHANGED <<args, init_error, wp_init, engine_vars, idx, topic_data, ai_content,
                   meta_description, blog_content, html_content, generated_count, published_count,
                   attempted, saved, world_vars>>

\* FindTopic with the bug of taking the row number as the position in sheet_data
FindTopic_ByPosition(row_number) ==
    IF row_number \in DOMAIN sheet_data THEN sheet_data[row_number] ELSE NoTopic

\* lines 155-164: the search for the row
FindTopic(row_number) ==
    LET found == {i \in DOMAIN sheet_data : sheet_data[i].row_number = row_number} IN
    IF found = {} THEN NoTopic
    ELSE sheet_data[CHOOSE i \in found : \A j \in found : i <= j]

generate_blog_post ==
    /\ pc = "dispatch"
    /\ ~args.list
    /\ args.generate # <<>>
    /\ mode' = "single"
    /\ LET row_number == args.generate[1]
           topic == FindTopic(row_number)
       IN IF topic = NoTopic
          THEN /\ reports' = reports \cup {<<"row_not_found", row_number>>}
               /\ Returned
               /\ UNCHANGED <<topic_data, attempted>>
          ELSE /\ topic_data' = topic
               /\ attempted' = Append(attempted, topic.row_number)
               /\ pc' = "generate"
               /\ UNCHANGED <<reports, exit_status>>
    /\ UNCHANGED <<args, init_error, wp_init, engine_vars, idx, ai_content, meta_description,
                   blog_content, html_content, generated_count, published_count, saved, world_vars>>

\* lines 189-195: the counters, before the loop
generate_all_blog_posts ==
    /\ pc = "dispatch"
    /\ ~args.list
    /\ args.generate = <<>>
    /\ args.generate_all
    /\ mode' = "batch"
    /\ idx' = 0
    /\ generated_count' = 0
    /\ published_count' = 0
    /\ pc' = "loop"
    /\ UNCHANGED <<args, exit_status, init_error, wp_init, engine_vars, topic_data, ai_content,
                   meta_description, blog_content, html_content, attempted, saved, world_vars, reports>>

\* lines 233-241
generate_custom_blog_post ==
    /\ pc = "dispatch"
    /\ ~args.list
    /\ args.generate = <<>>
    /\ ~args.generate_all
    /\ args.custom # <<>>
    /\ mode' = "custom"
    /\ topic_data' = [row_number |-> CustomRow, title |-> args.custom[1]]
    /\ attempted' = Append(attempted, CustomRow)
    /\ pc' = "generate"
    /\ UNCHANGED <<args, exit_status, init_error, wp_init, engine_vars, idx, ai_content,
                   meta_description, blog_content, html_content, generated_count, published_count,
                   saved, world_vars, reports>>

\* main, lines 91-94
print_help ==
    /\ pc = "dispatch"
    /\ ~args.list
    /\ args.generate = <<>>
    /\ ~args.generate_all
    /\ args.custom = <<>>
    /\ mode' = "help"
    /\ Returned
    /\ UNCHANGED <<args, init_error, wp_init, engine_vars, idx, topic_data, ai_content,
                   meta_description, blog_content, html_content, generated_count, published_count,
                   attempted, saved, world_vars, reports>>

-----------------------------------------------------------------------------
(* generate_all_blog_posts: the loop *)

\* line 197: the next topic_data of self.sheet_data
NextTopic ==
    /\ pc = "loop"
    /\ idx < Len(sheet_data)
    /\ idx' = idx + 1
    /\ topic_data' = sheet_data[idx + 1]
    /\ attempted' = Append(attempted, sheet_data[idx + 1].row_number)
    /\ pc' = "generate"
    /\ UNCHANGED <<args, exit_status, init_error, wp_init, engine_vars, mode, ai_content,
                   meta_description, blog_content, html_content, generated_count, published_count,
                   saved, world_vars, reports>>

\* lines 226-229: the summary
Summary ==
    /\ pc = "loop"
    /\ idx >= Len(sheet_data)
    /\ reports' = reports \cup {<<"summary_generated", generated_count>>}
                          \cup (IF wordpress_enabled
                                THEN {<<"summary_published", published_count>>} ELSE {})
    /\ Returned
    /\ UNCHANGED <<args, init_error, wp_init, engine_vars, run_vars, world_vars>>

-----------------------------------------------------------------------------
(* The stages of one topic *)

\* lines 296-312: one completion request; its text stripped, or an exception
_generate_ai_content ==
    /\ pc = "generate"
    /\ \/ /\ ai_content' \in Completions
          /\ pc' = "extract"
          /\ UNCHANGED <<reports, exit_status>>
       \/ /\ Raised
          /\ UNCHANGED ai_content
    /\ UNCHANGED <<args, init_error, wp_init, engine_vars, mode, idx, topic_data,
                   meta_description, blog_content, html_content, generated_count, published_count,
                   attempted, saved, world_vars>>

\* lines 172, 205, 247
ExtractStep ==
    /\ pc = "extract"
    /\ meta_description' = Parsed[ai_content][1]
    /\ blog_content' = Parsed[ai_content][2]
    /\ UNCHANGED html_content
    /\ pc' = "save"
    /\ UNCHANGED <<args, exit_status, init_error, wp_init, engine_vars, mode, idx, topic_data,
                   ai_content, generated_count, published_count, attempted, saved,
                   world_vars, reports>>

\* FullContent with the bug of a front matter that shows the flag of the command line
FullContent_RequestedFlag(written) ==
    [row_number |-> topic_data.row_number, title |-> topic_data.title,
     meta_description |-> meta_description, wordpress_enabled |-> args.to_wordpress,
     body |-> blog_content, written |-> written]

\* lines 354-367: the front matter and the body
FullContent(written) ==
    [row_number |-> topic_data.row_number, title |-> topic_data.title,
     meta_description |-> meta_description, wordpress_enabled |-> wordpress_enabled,
     body |-> blog_content, written |-> written]

\* open(filepath, 'w') creates or truncates the file, f.write fills it
WriteFile(name, content) ==
    files' = [n \in DOMAIN files \cup {name} |-> IF n = name THEN content ELSE files[n]]

\* AfterSave with the bug of going on to the next topic with the publishing left out
AfterSave_SkipsPublish ==
    /\ generated_count' = IF mode = "batch" THEN generated_count + 1 ELSE generated_count
    /\ reports' = reports \cup {<<"markdown_saved", topic_data.row_number>>}
    /\ TopicDone

\* lines 176-180, 208-213, 250-254: the caller after _save_blog_post returned
AfterSave ==
    /\ generated_count' = IF mode = "batch" THEN generated_count + 1 ELSE generated_count
    /\ reports' = reports \cup {<<"markdown_saved", topic_data.row_number>>}
    /\ IF wordpress_enabled
       THEN pc' = "publish" /\ UNCHANGED exit_status
       ELSE TopicDone

_save_blog_post ==
    /\ pc = "save"
    /\ \E timestamp \in now..MaxClock :
          /\ now' = timestamp
          /\ \/ /\ WriteFile(FileName(timestamp, topic_data.title), FullContent("all"))
                /\ saved' = Append(saved, topic_data.row_number)
                /\ AfterSave
             \/ /\ UNCHANGED files
                /\ Raised
                /\ UNCHANGED <<saved, generated_count>>
             \/ /\ WriteFile(FileName(timestamp, topic_data.title), FullContent("part"))
                /\ Raised
                /\ UNCHANGED <<saved, generated_count>>
    /\ UNCHANGED <<args, init_error, wp_init, engine_vars, mode, idx, topic_data, ai_content,
                   meta_description, blog_content, html_content, published_count, attempted, wp_calls>>

\* the identifier the remote site gives to its next post
NewPostId == Cardinality({i \in DOMAIN wp_calls : wp_calls[i].post_id # NoPostId}) + 1

\* AfterPublish with the bug of counting every publish attempt
AfterPublish_CountsAttempts(wp_post_id) ==
    /\ published_count' = IF mode = "batch" THEN published_count + 1 ELSE published_count
    /\ reports' = reports \cup {<<(IF wp_post_id # NoPostId THEN "wp_published"
                                                            ELSE "wp_failed"),
                                  topic_data.row_number>>}
    /\ TopicDone

\* AfterPublish with the bug of publishing again after a failure
AfterPublish_Retries(wp_post_id) ==
    /\ IF wp_post_id # NoPostId
       THEN /\ published_count' =
                  IF mode = "batch" THEN published_count + 1 ELSE published_count
            /\ reports' = reports \cup {<<"wp_published", topic_data.row_number>>}
            /\ TopicDone
       ELSE /\ UNCHANGED <<published_count, exit_status>>
            /\ reports' = reports \cup {<<"wp_failed", topic_data.row_number>>}
            /\ pc' = "publish"

\* lines 182-185, 215-219, 256-259: the caller after _publish_to_wordpress returned
AfterPublish(wp_post_id) ==
    /\ IF wp_post_id # NoPostId
       THEN /\ published_count' =
                  IF mode = "batch" THEN published_count + 1 ELSE published_count
            /\ reports' = reports \cup {<<"wp_published", topic_data.row_number>>}
       ELSE /\ UNCHANGED published_count
            /\ reports' = reports \cup {<<"wp_failed", topic_data.row_number>>}
    /\ TopicDone

\* PublishFailed with the bug of an exception that leaves _publish_to_wordpress
PublishFailed_Propagates ==
    /\ Raised
    /\ UNCHANGED published_count

\* lines 397-399: the except clause returns None to the caller
PublishFailed == AfterPublish(NoPostId)

\* lines 380-399; via is the conversion _markdown_to_html ended with: the markdown
\* library, or _simple_markdown_to_html after the library raised
_publish_to_wordpress ==
    /\ pc = "publish"
    /\ IF ~wordpress_enabled \/ ~has_wp_client
       THEN /\ UNCHANGED <<wp_calls, html_content>>
            /\ AfterPublish(NoPostId)
       ELSE \E raises \in BOOLEAN :
               /\ html_content' = Converted[blog_content][raises]
               /\ \/ /\ wp_calls' = Append(wp_calls,
                           [row_number |-> topic_data.row_number,
                            title |-> topic_data.title,
                            via |-> Converted[blog_content][raises].via,
                            post_id |-> NewPostId])
                     /\ AfterPublish(NewPostId)
                  \/ /\ wp_calls' = Append(wp_calls,
                           [row_number |-> topic_data.row_number,
                            title |-> topic_data.title,
                            via |-> Converted[blog_content][raises].via,
                            post_id |-> NoPostId])
                     /\ PublishFailed
    /\ UNCHANGED <<args, init_error, wp_init, engine_vars, mode, idx, topic_data, ai_content,
                   meta_description, blog_content, generated_count, attempted, saved,
                   now, files>>

-----------------------------------------------------------------------------

Next ==
    \/ Construct
    \/ _init_sheets_client
    \/ _init_ai_client
    \/ _init_wordpress_client
    \/ _load_sheet_data
    \/ list_topics
    \/ generate_blog_post
    \/ generate_all_blog_posts
    \/ generate_custom_blog_post
    \/ print_help
    \/ NextTopic
    \/ Summary
    \/ _generate_ai_content
    \/ ExtractStep
    \/ _save_blog_post
    \/ _publish_to_wordpress

Spec == Init /\ [][Next]_vars

\* the process is sequential and every call it makes returns or raises: a step
\* that can be taken is taken
FairSpec == Spec /\ WF_vars(Next)

-----------------------------------------------------------------------------
(* The response parser alone, on generated texts of every shape *)

\* a line of n letters
Letters(n) == [i \in 1..n |-> "x"]

MetaTexts ==
    { <<"S","E","O">>, <<"a"," ","b">>, <<>>,
      <<"a"," ">> \o Tag \o <<" ","b">>,
      Letters(MetaLimit + 1) }

BodyTexts ==
    { <<"b","o","d","y">>, <<"#"," ","T","\n","\n","b","o","d","y">>, <<>>,
      <<"a","\n","\n","\n","b">> }

\* META_DESCRIPTION: X, newline, newline, BODY
TaggedForm(x, body) == Tag \o <<" ">> \o x \o <<"\n", "\n">> \o body

TextLines ==
    { <<>>, <<" ", " ">>, <<"#", " ", "h">>, <<"h", "i">>, <<" ", "h", "i">>,
      <<"h", "i", " ">>, <<" ", "#", "x">>, <<"\t", "h", "i">>,
      <<"s", "e", "e", " ">> \o Tag \o <<" ", "x">>,
      <<" ">> \o Letters(MetaLimit), <<" ">> \o Letters(MetaLimit + 1) }
    \cup { Letters(n) : n \in (MetaLimit - 1)..(MetaLimit + MaxOver) }
    \cup { Letters(n) \o <<" ">> : n \in (MetaLimit - 1)..(MetaLimit + MaxOver) }

ParseInputs ==
    { TaggedForm(x, b) : x \in MetaTexts, b \in BodyTexts }
    \cup { Tag \o <<" ">> \o x : x \in MetaTexts }
    \cup TextLines
    \cup { Join(<<a, b>>, "\n") : a \in TextLines, b \in TextLines }

InitParse ==
    /\ ai_content \in ParseInputs
    /\ pc = "parse"
    /\ args = [list |-> FALSE, generate |-> <<>>, generate_all |-> FALSE,
               custom |-> <<>>, to_wordpress |-> FALSE]
    /\ exit_status = -1
    /\ init_error = "none"
    /\ wp_init = "not_requested"
    /\ wordpress_enabled = FALSE
    /\ has_wp_client = FALSE
    /\ sheet_data = <<>>
    /\ mode = "none"
    /\ idx = 0
    /\ topic_data = NoTopic
    /\ meta_description = <<>>
    /\ blog_content = <<>>
    /\ html_content = NoHtml
    /\ generated_count = 0
    /\ published_count = 0
    /\ now = 0
    /\ files = <<>>
    /\ wp_calls = <<>>
    /\ reports = {}
    /\ attempted = <<>>
    /\ saved = <<>>

\* one call of _extract_meta_description
ParseCall ==
    /\ pc = "parse"
    /\ meta_description' = _extract_meta_description(ai_content)[1]
    /\ blog_content' = _extract_meta_description(ai_content)[2]
    /\ UNCHANGED html_content
    /\ pc' = "parsed"
    /\ UNCHANGED <<args, exit_status, init_error, wp_init, engine_vars, mode, idx, topic_data,
                   ai_content, generated_count, published_count, attempted, saved,
                   world_vars, reports>>

NextParse == ParseCall

SpecParse == InitParse /\ [][NextParse]_vars

-----------------------------------------------------------------------------
(* The HTML conversion alone, on bodies of every shape *)

PlainParagraphs ==
    { <<"h", "i">>, <<"a", " ", "b">>, <<" ", "x">>, <<"a", "\n", "b">>, <<"2", "0", "2", "5">> }

MarkupParagraphs ==
    { <<"#", " ", "T">>, <<"#", "#", " ", "T">>, <<"#", "#", "#", " ", "T">>,
      <<"#", " ">>, <<"#", "x">>, <<"x", "\n", "#", " ", "T">>,
      <<"*", "*", "b", "*", "*">>, <<"*", "i", "*">>, <<"a", " ", "*", "*", "b", "*", "*", " ", "*", "c", "*">>,
      <<"*", "*", "*", "*">>, <<"*", "*", "*", "*", "*">>, <<"a", "*", "b">>,
      <<"*", "*", "a", "\n", "b", "*", "*">>,
      <<"<", "p", ">", "x", "<", "/", "p", ">">>,
      Dashes, Dashes \o <<"\n", "t", ":", "1", "\n">> \o Dashes \o <<"\n", "h", "i">>,
      Dashes \o <<"x">> \o Dashes \o <<"#", " ", "H">> }

HtmlInputs ==
    LET paragraphs == PlainParagraphs \cup MarkupParagraphs IN
    {<<>>} \cup paragraphs
    \cup { a \o <<"\n", "\n">> \o b : a \in PlainParagraphs, b \in paragraphs }
    \cup { a \o <<"\n", "\n">> \o b : a \in paragraphs, b \in PlainParagraphs }

InitHtml ==
    /\ blog_content \in HtmlInputs
    /\ pc = "convert"
    /\ args = [list |-> FALSE, generate |-> <<>>, generate_all |-> FALSE,
               custom |-> <<>>, to_wordpress |-> TRUE]
    /\ exit_status = -1
    /\ init_error = "none"
    /\ wp_init = "connected"
    /\ wordpress_enabled = TRUE
    /\ has_wp_client = TRUE
    /\ sheet_data = <<>>
    /\ mode = "none"
    /\ idx = 0
    /\ topic_data = NoTopic
    /\ ai_content = <<>>
    /\ meta_description = <<>>
    /\ html_content = NoHtml
    /\ generated_count = 0
    /\ published_count = 0
    /\ now = 0
    /\ files = <<>>
    /\ wp_calls = <<>>
    /\ reports = {}
    /\ attempted = <<>>
    /\ saved = <<>>

\* one call of _markdown_to_html, line 385
ConvertCall ==
    /\ pc = "convert"
    /\ \E raises \in BOOLEAN : html_content' = _markdown_to_html(blog_content, raises)
    /\ pc' = "converted"
    /\ UNCHANGED <<args, exit_status, init_error, wp_init, engine_vars, mode, idx, topic_data,
                   ai_content, meta_description, blog_content, generated_count,
                   published_count, attempted, saved, world_vars, reports>>

NextHtml == ConvertCall

SpecHtml == InitHtml /\ [][NextHtml]_vars

-----------------------------------------------------------------------------
(* Properties of a run (specification Spec) *)

RowNumbers(topics) == [i \in DOMAIN topics |-> topics[i].row_number]

\* the rows the batch loop reported as failed
FailedRows == {rep[2] : rep \in {x \in reports : x[1] = "failed_to_generate"}}

\* the create-post calls that returned an identifier
SuccessfulCalls == {i \in DOMAIN wp_calls : wp_calls[i].post_id # NoPostId}

SummaryPrinted == \E n \in 0..Len(sheet_data) : <<"summary_generated", n>> \in reports

NoDuplicates(seq) == \A i, j \in DOMAIN seq : seq[i] = seq[j] => i = j

\* C1: in batch mode the topics attempted so far are always exactly the first idx
\* loaded topics, each once and in load order, and the run ends only after every
\* topic was attempted, with the summary printed; whichever stage fails for
\* whichever topic, a batch run does reach that end.
C1_BatchAttemptsEveryTopic ==
    /\ [](mode = "batch" =>
            /\ attempted = RowNumbers(SubSeq(sheet_data, 1, idx))
            /\ pc = "exited" =>
                  idx = Len(sheet_data) /\ SummaryPrinted /\ exit_status = 0)
    /\ (mode = "batch") ~> (pc = "exited" /\ SummaryPrinted /\ idx = Len(sheet_data))

\* a batch run that ended after its first topic failed and its second was attempted
C1_Witness ==
    /\ mode = "batch"
    /\ pc = "exited"
    /\ Len(sheet_data) >= 2
    /\ sheet_data[1].row_number \in FailedRows
    /\ Len(attempted) = Len(sheet_data)

\* C2: in batch mode generated_count is the number of topics whose markdown write
\* returned and published_count the number of create-post calls that returned an
\* identifier; a topic reported as failed is in neither; the summary prints these.
C2_CountsAreCompletions ==
    mode = "batch" =>
        /\ generated_count = Len(saved)
        /\ published_count = Cardinality(SuccessfulCalls)
        /\ \A r \in FailedRows :
              /\ r \notin Range(saved)
              /\ \A i \in DOMAIN wp_calls : wp_calls[i].row_number # r
        /\ \A rep \in reports :
              /\ rep[1] = "summary_generated" => rep[2] = Len(saved)
              /\ rep[1] = "summary_published" => rep[2] = Cardinality(SuccessfulCalls)

\* a finished batch of two topics: one failed before its file was written, the other
\* was written and its publish attempt failed
C2_Witness ==
    /\ mode = "batch"
    /\ pc = "exited"
    /\ Len(attempted) = 2
    /\ FailedRows # {}
    /\ generated_count = 1
    /\ Len(wp_calls) = 1
    /\ published_count = 0
    /\ <<"summary_published", 0>> \in reports

\* C3: once the connectivity probe has returned false, publishing is off, the
\* constructor goes on (only the topic load can still fail), no create-post call is
\* ever issued, nothing is reported about publishing, and a run that returns has
\* written the markdown file of every topic it did not report as failed.
C3_ProbeFailureDisablesPublishing ==
    wp_init = "probe_false" =>
        /\ ~wordpress_enabled
        /\ init_error \in {"none", "load"}
        /\ wp_calls = <<>>
        /\ \A rep \in reports : rep[1] \notin {"wp_failed", "wp_published", "summary_published"}
        /\ \A r \in Range(saved) : <<"markdown_saved", r>> \in reports
        /\ (pc = "exited" /\ exit_status = 0 /\ mode \in {"single", "custom", "batch"})
              => \A r \in Range(attempted) : r \in Range(saved) \cup FailedRows

\* a single-topic run with publishing requested whose probe failed and whose file
\* was written
C3_Witness ==
    /\ wp_init = "probe_false"
    /\ args.to_wordpress
    /\ mode = "single"
    /\ pc = "exited"
    /\ Len(saved) = 1
    /\ files # <<>>

\* no topic was processed and the process exited with status 1
Aborted ==
    /\ pc = "exited"
    /\ exit_status = 1
    /\ attempted = <<>>
    /\ ai_content = <<>>
    /\ saved = <<>>
    /\ files = <<>>
    /\ wp_calls = <<>>

\* C4 as stated: the failure of any collaborator to construct, the
\* content-management client included, aborts the run.
C4_AnyCollaboratorFatal ==
    (init_error # "none" \/ wp_init = "construct_failed") => Aborted

\* C4, amended: the failure of the output directory, the spreadsheet client, the
\* completion client or the topic load aborts the run before any topic is processed,
\* with exit status 1; a content-management client that fails to construct only
\* switches publishing off and the constructor goes on.
C4_FatalInitialization ==
    /\ init_error # "none" => Aborted
    /\ wp_init = "construct_failed" =>
          /\ ~wordpress_enabled
          /\ ~has_wp_client
          /\ wp_calls = <<>>
          /\ init_error \in {"none", "load"}

\* the content-management client failed to construct, then the topic load failed
C4_Witness ==
    /\ wp_init = "construct_failed"
    /\ init_error = "load"
    /\ pc = "exited"

\* C5: in single-topic mode, when no loaded topic has the requested row number, the
\* run has reported not-found and returned, with no completion request, no file
\* and no create-post call.
C5_NotFoundNoSideEffects ==
    (/\ mode = "single"
     /\ \A i \in DOMAIN sheet_data : sheet_data[i].row_number # args.generate[1])
    => /\ <<"row_not_found", args.generate[1]>> \in reports
       /\ pc = "exited"
       /\ attempted = <<>>
       /\ ai_content = <<>>
       /\ saved = <<>>
       /\ files = <<>>
       /\ wp_calls = <<>>

\* the requested row is a row of the sheet that was skipped at load, and other
\* topics are loaded
C5_Witness ==
    /\ mode = "single"
    /\ sheet_data # <<>>
    /\ args.generate[1] \in 1..MaxRows
    /\ <<"row_not_found", args.generate[1]>> \in reports

\* C6: a create-post call that raised reached the caller as the no-identifier
\* result: the failure is reported as a publish failure, not as an exception of the
\* topic or of the process; the topic's file is written and counted, it is still in
\* the output directory while the topic is the current one, and a batch goes on to
\* its last topic.
C6_PublishFailureContained ==
    \A i \in DOMAIN wp_calls :
        wp_calls[i].post_id = NoPostId =>
            LET r == wp_calls[i].row_number IN
            /\ <<"wp_failed", r>> \in reports
            /\ <<"traceback", r>> \notin reports
            /\ r \notin FailedRows
            /\ exit_status # 1
            /\ r \in Range(saved)
            /\ <<"markdown_saved", r>> \in reports
            /\ r = topic_data.row_number =>
                  \E n \in DOMAIN files : files[n] = FullContent("all")
            /\ mode = "batch" => generated_count = Len(saved) /\ generated_count >= 1
            /\ (mode = "batch" /\ pc = "exited") => idx = Len(sheet_data)

\* a batch whose first publish failed and whose second topic was then published
C6_Witness ==
    /\ mode = "batch"
    /\ pc = "exited"
    /\ Len(wp_calls) = 2
    /\ wp_calls[1].post_id = NoPostId
    /\ wp_calls[2].post_id # NoPostId
    /\ generated_count = 2

\* C7: within one run no topic is attempted twice, written twice or published
\* twice: at most one create-post call is issued per topic, whatever it returned.
C7_NoRetry ==
    /\ NoDuplicates(RowNumbers(wp_calls))
    /\ NoDuplicates(attempted)
    /\ NoDuplicates(saved)
    /\ Len(wp_calls) <= Len(saved)

\* a single-topic run that ended after its only create-post call had failed
C7_Witness ==
    /\ mode = "single"
    /\ pc = "exited"
    /\ Len(wp_calls) = 1
    /\ wp_calls[1].post_id = NoPostId

\* C8: the exit status is 1 when the constructor failed and 0 in every other case,
\* whatever failed while topics were processed.
C8_ExitStatus ==
    pc = "exited" => exit_status = (IF init_error # "none" THEN 1 ELSE 0)

-----------------------------------------------------------------------------
(* Properties of the response parser (specification SpecParse) *)

\* C9: for a text META_DESCRIPTION: X, newline, newline, BODY, with X one trimmed
\* line and BODY trimmed, the parser returns exactly the pair (X, BODY).
C9_TaggedParse ==
    pc = "parsed" =>
        \A x \in MetaTexts, b \in BodyTexts :
            (/\ ai_content = TaggedForm(x, b)
             /\ Strip(x) = x
             /\ Strip(b) = b
             /\ Find(x, <<"\n">>) = 0)
            => /\ meta_description = x
               /\ blog_content = b

\* the first line of the text that is not blank and does not start with '#'
FirstTextLine(content) ==
    LET lines == Split(content, "\n", -1)
        text == {i \in DOMAIN lines :
                    Strip(lines[i]) # <<>> /\ ~StartsWith(lines[i], <<"#">>)}
    IN IF text = {} THEN <<>> ELSE lines[Min(text)]

\* meta is a prefix of line, followed by an ellipsis only when line is too long
PrefixOf(meta, line) ==
    \/ \E k \in 0..Len(line) : meta = Take(line, k)
    \/ /\ Len(line) > MetaLimit
       /\ \E k \in 0..Len(line) : meta = Take(line, k) \o Ellipsis

LongestMeta == MetaLimit + Len(Ellipsis)

\* C10 as stated: for a text that does not begin with the tag, the meta description
\* is a prefix of the first non-blank line not starting with '#' (with an ellipsis
\* only when that line exceeded 157 characters), at most 160 characters long, the
\* body is the input unchanged, and the empty text gives the empty description.
C10_PrefixOfLine ==
    (pc = "parsed" /\ ~StartsWith(ai_content, Tag)) =>
        /\ PrefixOf(meta_description, FirstTextLine(ai_content))
        /\ Len(meta_description) <= LongestMeta
        /\ blog_content = ai_content
        /\ ai_content = <<>> => meta_description = <<>>

\* C10, amended: the meta description is a prefix of that line with its surrounding
\* whitespace trimmed (with an ellipsis only when the trimmed line exceeded 157
\* characters); the rest as stated.
C10_PrefixOfTrimmedLine ==
    (pc = "parsed" /\ ~StartsWith(ai_content, Tag)) =>
        /\ PrefixOf(meta_description, Strip(FirstTextLine(ai_content)))
        /\ Len(meta_description) <= LongestMeta
        /\ blog_content = ai_content
        /\ ai_content = <<>> => meta_description = <<>>

\* an indented line longer than the limit was trimmed and truncated
C10_Witness ==
    /\ pc = "parsed"
    /\ ai_content # <<>>
    /\ Head(ai_content) = " "
    /\ Len(meta_description) = LongestMeta
    /\ blog_content = ai_content

-----------------------------------------------------------------------------
(* Properties of the post writer (specification Spec) *)

\* a title without the characters that are not alphanumeric, whitespace or hyphen
RECURSIVE OnlyWordChars(_)
OnlyWordChars(s) ==
    IF s = <<>> THEN <<>>
    ELSE IF Head(s) \in (KeptChars \ {"\\"}) \cup Whitespace
         THEN <<Head(s)>> \o OnlyWordChars(Tail(s))
         ELSE OnlyWordChars(Tail(s))

\* every run of whitespace replaced by one hyphen
RECURSIVE HyphenateSpaces(_)
HyphenateSpaces(s) ==
    IF s = <<>> THEN <<>>
    ELSE IF Head(s) \in Whitespace
         THEN <<"-">> \o HyphenateSpaces(LStrip(s))
         ELSE <<Head(s)>> \o HyphenateSpaces(Tail(s))

\* the slug the file name is said to hold
HyphenatedSlug(title) == Take(Lower(HyphenateSpaces(OnlyWordChars(title))), SlugLimit)

HelloSlug == <<"h","e","l","l","o","-","w","o","r","l","d","-","2","0","2","5">>

\* C11: the name of every file written is the timestamp and the slug of its title:
\* the title without the characters that are not alphanumeric, whitespace or
\* hyphen, each run of whitespace collapsed into one hyphen, lowercased, cut to
\* 50 characters; for the title "Hello, World! 2025" the slug is hello-world-2025.
C11_SlugOfTitle ==
    \A n \in DOMAIN files :
        /\ n[2] = HyphenatedSlug(files[n].title)
        /\ files[n].title = HelloTitle => n[2] = HelloSlug

-----------------------------------------------------------------------------
(* Properties of the HTML conversion (specification SpecHtml) *)

\* the characters the converters give a meaning to
MarkupChars == {"#", "*", "<", ">", "-", "_", "[", "]"}

\* non-empty text with no markdown markup
IsPlainText(s) ==
    /\ Strip(s) # <<>>
    /\ \A i \in DOMAIN s : s[i] \notin MarkupChars

\* C12: when the primary conversion raises, the reduced converter answers, and
\* for every non-empty plain text with no markdown markup its answer is a
\* non-empty string.
C12_FallbackNonEmpty ==
    (pc = "converted" /\ html_content.via = "simple" /\ IsPlainText(blog_content))
        => html_content.text # <<>>

-----------------------------------------------------------------------------
(* Properties of the files (specification Spec) *)

\* C13: a failed write leaves no partial file behind: every file of the output
\* directory, in every state, a failed _save_blog_post included, holds the
\* complete front matter and body of its post.
C13_NoPartialFile ==
    \A n \in DOMAIN files : files[n].written = "all"

-----------------------------------------------------------------------------
(* Properties of the order of the stages (specification Spec) *)

\* the publish attempt of the row has returned to its caller
PublishCompleted(row_number) ==
    <<"wp_published", row_number>> \in reports \/ <<"wp_failed", row_number>> \in reports

\* the topic is over: it failed, or it was written and, when publishing is
\* enabled, its publish attempt has completed
Resolved(row_number) ==
    \/ row_number \in FailedRows
    \/ /\ row_number \in Range(saved)
       /\ wordpress_enabled => PublishCompleted(row_number)

\* the stage a step enters is the one that follows the stage it leaves, and each
\* stage's result is produced in that stage only
StageOrder ==
    /\ pc' # pc =>
          /\ pc' = "generate" => pc \in {"dispatch", "loop"}
          /\ pc' = "extract" => pc = "generate"
          /\ pc' = "save" => pc = "extract"
          /\ pc' = "publish" =>
                pc = "save" /\ saved' = Append(saved, topic_data.row_number)
    /\ ai_content' # ai_content => pc = "generate" /\ pc' = "extract"
    /\ <<meta_description, blog_content>>' # <<meta_description, blog_content>> =>
          pc = "extract" /\ pc' = "save"
    /\ files' # files => pc = "save"
    /\ saved' # saved => pc = "save" /\ saved' = Append(saved, topic_data.row_number)
    /\ wp_calls' # wp_calls =>
          /\ pc = "publish"
          /\ saved # <<>>
          /\ saved[Len(saved)] = topic_data.row_number
          /\ Len(wp_calls') = Len(wp_calls) + 1
          /\ wp_calls'[Len(wp_calls')].row_number = topic_data.row_number

\* C14: the stages of a topic run in the order Generate, Parse, Write, Publish; a
\* create-post call for a topic is issued only after that topic's write has
\* succeeded; and in batch mode, while the completion request of a topic is
\* pending or later, every earlier topic has failed or has had its write and,
\* when publishing is enabled, its publish attempt completed.
C14_StagesInOrder ==
    /\ [](/\ \A i \in DOMAIN wp_calls : wp_calls[i].row_number \in Range(saved)
          /\ pc = "publish" => saved # <<>> /\ saved[Len(saved)] = topic_data.row_number
          /\ mode = "batch" =>
                /\ \A k \in 1..(idx - 1) : Resolved(sheet_data[k].row_number)
                /\ pc = "loop" => \A k \in 1..idx : Resolved(sheet_data[k].row_number))
    /\ [][StageOrder]_vars

\* the completion request of the second topic of a batch is pending, after the
\* first topic was written and its create-post call was made
C14_Witness ==
    /\ mode = "batch"
    /\ pc = "generate"
    /\ idx = 2
    /\ wordpress_enabled
    /\ sheet_data[1].row_number \in Range(saved)
    /\ \E i \in DOMAIN wp_calls : wp_calls[i].row_number = sheet_data[1].row_number

-----------------------------------------------------------------------------
(* Properties of the publishing flag (specification Spec) *)

\* the outcomes of _init_wordpress_client that switch publishing off
SwitchedOff == {"probe_false", "construct_failed"}

\* the flag is assigned by the constructor, and, after that, only cleared and only
\* by _init_wordpress_client; a create-post call is made with the flag set
FlagSteps ==
    /\ wordpress_enabled' # wordpress_enabled =>
          \/ pc = "construct" /\ wordpress_enabled' = args.to_wordpress
          \/ /\ pc = "init_wp"
             /\ wordpress_enabled
             /\ ~wordpress_enabled'
             /\ wp_init' \in SwitchedOff
    /\ wp_calls' # wp_calls => wordpress_enabled /\ wordpress_enabled'

\* C15: the publishing flag only goes from true to false, and only while the
\* engine is initialized, when the probe returns false or the client cannot be
\* constructed; it does not change while topics are processed; a create-post call
\* is issued only with the flag true; and the front matter of every post shows
\* this effective flag, not the flag of the command line.
C15_EffectiveFlag ==
    /\ [](/\ pc \notin {"construct", "init_sheets", "init_ai", "init_wp"} =>
                wordpress_enabled = (args.to_wordpress /\ wp_init \notin SwitchedOff)
          /\ wp_calls # <<>> => wordpress_enabled
          /\ \A n \in DOMAIN files : files[n].wordpress_enabled = wordpress_enabled)
    /\ [][FlagSteps]_vars

\* a post written after the probe had failed: publishing was asked for on the
\* command line and its front matter says it is off
C15_Witness ==
    /\ args.to_wordpress
    /\ wp_init = "probe_false"
    /\ ~wordpress_enabled
    /\ \E n \in DOMAIN files :
          files[n].written = "all" /\ ~files[n].wordpress_enabled
    /\ wp_calls = <<>>

====
